---- MODULE Spec2Model ----
(***************************************************************************)
(* Model of the AuditLayer complaint registry (src/src/lib.rs).            *)
(*                                                                         *)
(* The contract state is one BTreeMap from complaint id to ComplaintInfo.  *)
(* The host dispatches one call at a time; every call is one step.  Each   *)
(* handler is modelled as a function from (state, arguments) to            *)
(* (state, return value), and one action per handler applies it.           *)
(***************************************************************************)
EXTENDS Integers, Sequences, FiniteSets, TLC

\* ------------------------------------------------------------------------
\* Bounds and input alphabets
\* ------------------------------------------------------------------------

\* Number of calls the host dispatches in one explored run.
MaxOps == 4

ComplaintIds == {"C1", "C2"}
ComplaintHashes == {"", "hashA"}
UserIds == {"", "U1"}
Timestamps == {"", "T1"}
\* The status argument is an unrestricted String: the four documented values
\* and one value outside them.
StatusArgs == {"FILED", "UNDER_INVESTIGATION", "RESOLVED", "REJECTED", ""}
ProofHashes == {"pHash1", "pHash2"}
ProofTypes == {"document"}

\* ------------------------------------------------------------------------
\* Data shapes and handlers as functions
\* ------------------------------------------------------------------------

\* ProofInfo { proof_hash, proof_type, timestamp }
ProofInfo(proof_hash, proof_type, timestamp) ==
    [proof_hash |-> proof_hash, proof_type |-> proof_type, timestamp |-> timestamp]

\* The ComplaintInfo built by complaint_register.
NewComplaint_noLastUpdate(complaint_hash, user_id, timestamp) ==
    [user_id            |-> user_id,
     complaint_hash     |-> complaint_hash,
     timestamp          |-> timestamp,
     status             |-> "FILED",
     last_status_update |-> "",
     proofs             |-> << >>]

NewComplaint(complaint_hash, user_id, timestamp) ==
    [user_id            |-> user_id,
     complaint_hash     |-> complaint_hash,
     timestamp          |-> timestamp,
     status             |-> "FILED",
     last_status_update |-> timestamp,
     proofs             |-> << >>]
\* A default record that looks like a freshly filed complaint.
EmptyComplaint_filed ==
    [user_id            |-> "",
     complaint_hash     |-> "",
     timestamp          |-> "",
     status             |-> "FILED",
     last_status_update |-> "",
     proofs             |-> << >>]

\* The default returned by get_complaint for an absent id.
EmptyComplaint ==
    [user_id            |-> "",
     complaint_hash     |-> "",
     timestamp          |-> "",
     status             |-> "",
     last_status_update |-> "",
     proofs             |-> << >>]

\* The guard shared by register_proof and update_complaint_status.
IsClosed_onlyRejected(complaint) ==
    complaint.status = "REJECTED"

IsClosed(complaint) ==
    complaint.status = "REJECTED" \/ complaint.status = "RESOLVED"

\* BTreeMap::insert
MapInsert(map, key, value) ==
    [k \in (DOMAIN map) \cup {key} |-> IF k = key THEN value ELSE map[k]]

\* complaint_register without the contains_key test: insert overwrites.
complaint_register_overwrite(map, complaint_id, complaint_hash, user_id, timestamp) ==
    [complaints |-> MapInsert(map, complaint_id,
                              NewComplaint(complaint_hash, user_id, timestamp)),
     ret        |-> TRUE]
\* complaint_register that reports the conflict but stores the new record.
complaint_register_replaceSilently(map, complaint_id, complaint_hash, user_id, timestamp) ==
    [complaints |-> MapInsert(map, complaint_id,
                              NewComplaint(complaint_hash, user_id, timestamp)),
     ret        |-> complaint_id \notin DOMAIN map]

complaint_register(map, complaint_id, complaint_hash, user_id, timestamp) ==
    IF complaint_id \in DOMAIN map
    THEN [complaints |-> map, ret |-> FALSE]
    ELSE [complaints |-> MapInsert(map, complaint_id,
                                   NewComplaint(complaint_hash, user_id, timestamp)),
          ret        |-> TRUE]

\* The push at the end of register_proof, and ways to get it wrong.
PushProof_dedup(proofs, proof) ==
    IF \E i \in 1..Len(proofs) : proofs[i] = proof THEN proofs ELSE Append(proofs, proof)

VecPush(proofs, proof) ==
    Append(proofs, proof)

PushProof_touchUpdate(complaint, proof) ==
    [complaint EXCEPT !.proofs = Append(@, proof),
                      !.last_status_update = proof.timestamp]

PushProof_markInvestigating(complaint, proof) ==
    [complaint EXCEPT !.proofs = Append(@, proof),
                      !.status = "UNDER_INVESTIGATION"]

WithProof(complaint, proof) ==
    [complaint EXCEPT !.proofs = VecPush(@, proof)]
\* register_proof that pushes the proof onto every open complaint.
register_proof_allOpen(map, complaint_id, proof_hash, proof_type, timestamp) ==
    IF complaint_id \notin DOMAIN map
    THEN [complaints |-> map, ret |-> FALSE]
    ELSE IF IsClosed(map[complaint_id])
    THEN [complaints |-> map, ret |-> FALSE]
    ELSE [complaints |-> [id \in DOMAIN map |->
                             IF IsClosed(map[id])
                             THEN map[id]
                             ELSE WithProof(map[id],
                                            ProofInfo(proof_hash, proof_type, timestamp))],
          ret        |-> TRUE]

register_proof(map, complaint_id, proof_hash, proof_type, timestamp) ==
    IF complaint_id \notin DOMAIN map
    THEN [complaints |-> map, ret |-> FALSE]
    ELSE IF IsClosed(map[complaint_id])
    THEN [complaints |-> map, ret |-> FALSE]
    ELSE [complaints |-> [map EXCEPT ![complaint_id] =
                             WithProof(@, ProofInfo(proof_hash, proof_type, timestamp))],
          ret        |-> TRUE]

\* The two assignments of update_complaint_status.
SetStatus_dropProofs(complaint, status, timestamp) ==
    [complaint EXCEPT !.status = status,
                      !.last_status_update = timestamp,
                      !.proofs = << >>]
\* The assignments of update_complaint_status, also stamping the filing time.
SetStatus_touchFiledAt(complaint, status, timestamp) ==
    [complaint EXCEPT !.status = status,
                      !.last_status_update = timestamp,
                      !.timestamp = timestamp]

SetStatus(complaint, status, timestamp) ==
    [complaint EXCEPT !.status = status, !.last_status_update = timestamp]

\* update_complaint_status that assigns before it tests the guard.
update_complaint_status_writeFirst(map, complaint_id, status, timestamp) ==
    IF complaint_id \notin DOMAIN map
    THEN [complaints |-> map, ret |-> FALSE]
    ELSE [complaints |-> [map EXCEPT ![complaint_id] = SetStatus(@, status, timestamp)],
          ret        |-> ~IsClosed(map[complaint_id])]

\* update_complaint_status that refuses to set the status it already has.
update_complaint_status_noSelf(map, complaint_id, status, timestamp) ==
    IF complaint_id \notin DOMAIN map
    THEN [complaints |-> map, ret |-> FALSE]
    ELSE IF IsClosed(map[complaint_id]) \/ map[complaint_id].status = status
    THEN [complaints |-> map, ret |-> FALSE]
    ELSE [complaints |-> [map EXCEPT ![complaint_id] = SetStatus(@, status, timestamp)],
          ret        |-> TRUE]
\* update_complaint_status that never goes back to FILED.
update_complaint_status_forwardOnly(map, complaint_id, status, timestamp) ==
    IF complaint_id \notin DOMAIN map
    THEN [complaints |-> map, ret |-> FALSE]
    ELSE IF IsClosed(map[complaint_id])
            \/ (status = "FILED" /\ map[complaint_id].status # "FILED")
    THEN [complaints |-> map, ret |-> FALSE]
    ELSE [complaints |-> [map EXCEPT ![complaint_id] = SetStatus(@, status, timestamp)],
          ret        |-> TRUE]
\* update_complaint_status whose guard looks at every stored complaint.
update_complaint_status_anyClosed(map, complaint_id, status, timestamp) ==
    IF complaint_id \notin DOMAIN map
    THEN [complaints |-> map, ret |-> FALSE]
    ELSE IF \E id \in DOMAIN map : IsClosed(map[id])
    THEN [complaints |-> map, ret |-> FALSE]
    ELSE [complaints |-> [map EXCEPT ![complaint_id] = SetStatus(@, status, timestamp)],
          ret        |-> TRUE]

update_complaint_status(map, complaint_id, status, timestamp) ==
    IF complaint_id \notin DOMAIN map
    THEN [complaints |-> map, ret |-> FALSE]
    ELSE IF IsClosed(map[complaint_id])
    THEN [complaints |-> map, ret |-> FALSE]
    ELSE [complaints |-> [map EXCEPT ![complaint_id] = SetStatus(@, status, timestamp)],
          ret        |-> TRUE]
\* get_complaints that leaves closed complaints out of the copy.
get_complaints_openOnly(map) ==
    [id \in {k \in DOMAIN map : map[k].status \notin {"REJECTED", "RESOLVED"}} |-> map[id]]

\* get_complaints: a clone of the whole map.
get_complaints(map) ==
    map
\* get_complaint whose default record is marked as such.
get_complaint_marked(map, complaint_id) ==
    IF complaint_id \in DOMAIN map
    THEN map[complaint_id]
    ELSE [EmptyComplaint EXCEPT !.status = "NOT_FOUND"]

\* get_complaint: a clone of the stored record, or the default.
get_complaint(map, complaint_id) ==
    IF complaint_id \in DOMAIN map THEN map[complaint_id] ELSE EmptyComplaint

\* ------------------------------------------------------------------------
\* State
\* ------------------------------------------------------------------------

VARIABLES
    complaints,   \* AuditLayerContractState.complaints
    call,         \* the call the host dispatched last: its name and arguments
    ret,          \* the value that call returned
    nOps,         \* how many calls have been dispatched
    proofLog,     \* the register_proof calls that returned true, in call order
    updated,      \* ids for which an update_complaint_status call returned true
    held,         \* the value the last query returned, as its caller keeps it
    firstRegister \* per id, the arguments of the first complaint_register call

vars == <<complaints, call, ret, nOps, proofLog, updated, held, firstRegister>>

\* new(): an empty map.
new ==
    [id \in {} |-> EmptyComplaint]

Init ==
    /\ complaints = new
    /\ call = [op |-> "new"]
    /\ ret = TRUE
    /\ nOps = 0
    /\ proofLog = << >>
    /\ updated = {}
    /\ held = [op |-> "none"]
    /\ firstRegister = new

\* ------------------------------------------------------------------------
\* One action per handler
\* ------------------------------------------------------------------------

CallComplaintRegister ==
    /\ nOps < MaxOps
    /\ \E complaint_id \in ComplaintIds, complaint_hash \in ComplaintHashes,
          user_id \in UserIds, timestamp \in Timestamps :
          LET r == complaint_register(complaints, complaint_id, complaint_hash,
                                      user_id, timestamp)
          IN  /\ complaints' = r.complaints
              /\ ret' = r.ret
              /\ call' = [op |-> "complaint_register", complaint_id |-> complaint_id,
                          complaint_hash |-> complaint_hash, user_id |-> user_id,
                          timestamp |-> timestamp]
              /\ firstRegister' =
                    IF complaint_id \in DOMAIN firstRegister
                    THEN firstRegister
                    ELSE MapInsert(firstRegister, complaint_id,
                                   [complaint_hash |-> complaint_hash,
                                    user_id |-> user_id, timestamp |-> timestamp])
    /\ nOps' = nOps + 1
    /\ UNCHANGED <<proofLog, updated, held>>

CallRegisterProof ==
    /\ nOps < MaxOps
    /\ \E complaint_id \in ComplaintIds, proof_hash \in ProofHashes,
          proof_type \in ProofTypes, timestamp \in Timestamps :
          LET r == register_proof(complaints, complaint_id, proof_hash,
                                  proof_type, timestamp)
          IN  /\ complaints' = r.complaints
              /\ ret' = r.ret
              /\ call' = [op |-> "register_proof", complaint_id |-> complaint_id,
                          proof_hash |-> proof_hash, proof_type |-> proof_type,
                          timestamp |-> timestamp]
              /\ proofLog' = IF r.ret
                             THEN Append(proofLog, [complaint_id |-> complaint_id,
                                                    proof_hash |-> proof_hash,
                                                    proof_type |-> proof_type,
                                                    timestamp |-> timestamp])
                             ELSE proofLog
    /\ nOps' = nOps + 1
    /\ UNCHANGED <<updated, held, firstRegister>>

CallUpdateComplaintStatus ==
    /\ nOps < MaxOps
    /\ \E complaint_id \in ComplaintIds, status \in StatusArgs,
          timestamp \in Timestamps :
          LET r == update_complaint_status(complaints, complaint_id, status, timestamp)
          IN  /\ complaints' = r.complaints
              /\ ret' = r.ret
              /\ call' = [op |-> "update_complaint_status",
                          complaint_id |-> complaint_id,
                          status |-> status, timestamp |-> timestamp]
              /\ updated' = IF r.ret THEN updated \cup {complaint_id} ELSE updated
    /\ nOps' = nOps + 1
    /\ UNCHANGED <<proofLog, held, firstRegister>>

CallGetComplaints ==
    /\ nOps < MaxOps
    /\ ret' = get_complaints(complaints)
    /\ call' = [op |-> "get_complaints"]
    /\ held' = [op |-> "get_complaints", value |-> get_complaints(complaints)]
    /\ nOps' = nOps + 1
    /\ UNCHANGED <<complaints, proofLog, updated, firstRegister>>
\* get_complaint written with entry().or_insert(): an absent id is stored.
CallGetComplaint_inserting ==
    /\ nOps < MaxOps
    /\ \E complaint_id \in ComplaintIds :
          /\ ret' = get_complaint(complaints, complaint_id)
          /\ call' = [op |-> "get_complaint", complaint_id |-> complaint_id]
          /\ held' = [op |-> "get_complaint", complaint_id |-> complaint_id,
                      value |-> get_complaint(complaints, complaint_id)]
          /\ complaints' = MapInsert(complaints, complaint_id,
                                     get_complaint(complaints, complaint_id))
    /\ nOps' = nOps + 1
    /\ UNCHANGED <<proofLog, updated, firstRegister>>

CallGetComplaint ==
    /\ nOps < MaxOps
    /\ \E complaint_id \in ComplaintIds :
          /\ ret' = get_complaint(complaints, complaint_id)
          /\ call' = [op |-> "get_complaint", complaint_id |-> complaint_id]
          /\ held' = [op |-> "get_complaint", complaint_id |-> complaint_id,
                      value |-> get_complaint(complaints, complaint_id)]
    /\ nOps' = nOps + 1
    /\ UNCHANGED <<complaints, proofLog, updated, firstRegister>>

Next ==
    \/ CallComplaintRegister
    \/ CallRegisterProof
    \/ CallUpdateComplaintStatus
    \/ CallGetComplaints
    \/ CallGetComplaint

Spec == Init /\ [][Next]_vars

\* ------------------------------------------------------------------------
\* Properties
\* ------------------------------------------------------------------------

TerminalStatuses == {"RESOLVED", "REJECTED"}
KnownStatuses == {"FILED", "UNDER_INVESTIGATION", "RESOLVED", "REJECTED"}
Mutators == {"complaint_register", "register_proof", "update_complaint_status"}

\* The step just taken was the call `op` on complaint `id`.
Called(op, id) ==
    /\ call'.op = op
    /\ call'.complaint_id = id

\* C1 (Freeze): a record whose status is RESOLVED or REJECTED is the same
\* record after every step, and a register_proof or update_complaint_status
\* call on it returns false.
C1_Freeze ==
    [][\A id \in DOMAIN complaints :
          complaints[id].status \in TerminalStatuses =>
             /\ id \in DOMAIN complaints'
             /\ complaints'[id] = complaints[id]
             /\ (call'.op \in {"register_proof", "update_complaint_status"}
                   /\ call'.complaint_id = id) => ret' = FALSE]_vars

\* A RESOLVED record holding a proof has just refused a status update.
C1_Witness ==
    /\ call.op = "update_complaint_status"
    /\ ret = FALSE
    /\ call.complaint_id \in DOMAIN complaints
    /\ complaints[call.complaint_id].status = "RESOLVED"
    /\ Len(complaints[call.complaint_id].proofs) = 1

\* C2 (Uniqueness): complaint_register on an id that is present returns false
\* and leaves the stored record as it was.
C2_Uniqueness ==
    [][\A id \in DOMAIN complaints :
          Called("complaint_register", id) =>
             /\ ret' = FALSE
             /\ id \in DOMAIN complaints'
             /\ complaints'[id] = complaints[id]]_vars

\* A registration was refused although its arguments differ from the stored
\* record in every field, and the stored record has a proof.
C2_Witness ==
    /\ call.op = "complaint_register"
    /\ ret = FALSE
    /\ complaints[call.complaint_id].user_id # call.user_id
    /\ complaints[call.complaint_id].complaint_hash # call.complaint_hash
    /\ complaints[call.complaint_id].timestamp # call.timestamp
    /\ complaints[call.complaint_id].proofs # << >>

\* C3: the status of every stored complaint is one of FILED,
\* UNDER_INVESTIGATION, RESOLVED, REJECTED.
C3_StatusKnown ==
    \A id \in DOMAIN complaints : complaints[id].status \in KnownStatuses

\* The (hash, kind, timestamp) arguments of the accepted register_proof calls
\* for complaint `id`, in call order.
AcceptedProofs(id) ==
    LET mine == SelectSeq(proofLog, LAMBDA e : e.complaint_id = id)
    IN  [i \in 1..Len(mine) |->
            [proof_hash |-> mine[i].proof_hash,
             proof_type |-> mine[i].proof_type,
             timestamp  |-> mine[i].timestamp]]

\* C4 (Proof ordering): the proofs of a complaint are the arguments of the
\* accepted register_proof calls for it, in call order and with duplicates;
\* an accepted call adds one element at the end and keeps what was there, and
\* no other step changes the sequence.
C4_ProofOrdering ==
    /\ [](\A id \in DOMAIN complaints : complaints[id].proofs = AcceptedProofs(id))
    /\ [][\A id \in DOMAIN complaints :
             LET old == complaints[id].proofs
                 now == complaints'[id].proofs
             IN  IF Called("register_proof", id) /\ ret' = TRUE
                 THEN /\ Len(now) = Len(old) + 1
                      /\ SubSeq(now, 1, Len(old)) = old
                      /\ now[Len(now)] = [proof_hash |-> call'.proof_hash,
                                          proof_type |-> call'.proof_type,
                                          timestamp  |-> call'.timestamp]
                 ELSE now = old]_vars

\* The same proof was accepted twice for one complaint and is stored twice.
C4_Witness ==
    /\ call.op = "register_proof"
    /\ ret = TRUE
    /\ Len(complaints[call.complaint_id].proofs) = 2
    /\ complaints[call.complaint_id].proofs[1] = complaints[call.complaint_id].proofs[2]

\* C5 (Read-after-write): a get_complaint(id) call that directly follows a
\* complaint_register(id, h, u, t) call that returned true returns user_id u,
\* complaint_hash h, status FILED, timestamp and last_status_update t, and no
\* proofs.
C5_ReadAfterWrite ==
    [][(/\ call.op = "complaint_register"
        /\ ret = TRUE
        /\ Called("get_complaint", call.complaint_id))
       => /\ ret'.user_id = call.user_id
          /\ ret'.complaint_hash = call.complaint_hash
          /\ ret'.status = "FILED"
          /\ ret'.timestamp = call.timestamp
          /\ ret'.last_status_update = call.timestamp
          /\ ret'.proofs = << >>]_vars

\* The second call of a run reads a stored complaint with non-empty fields:
\* the first call was the registration of that complaint.
C5_Witness ==
    /\ nOps = 2
    /\ call.op = "get_complaint"
    /\ call.complaint_id \in DOMAIN complaints
    /\ ret.user_id = "U1"
    /\ ret.complaint_hash = "hashA"
    /\ ret.timestamp = "T1"

\* C6: last_status_update of a stored complaint changes only in a step that
\* is an update_complaint_status call on it returning true, and equals the
\* filing timestamp as long as no such call has happened.
C6_LastStatusUpdate ==
    /\ [][\A id \in DOMAIN complaints :
             (id \in DOMAIN complaints'
                /\ complaints'[id].last_status_update # complaints[id].last_status_update)
             => (Called("update_complaint_status", id) /\ ret' = TRUE)]_vars
    /\ [](\A id \in (DOMAIN complaints) \ updated :
             complaints[id].last_status_update = complaints[id].timestamp)

\* A proof was accepted for a complaint that was never updated, with a proof
\* timestamp other than the filing timestamp.
C6_Witness ==
    /\ call.op = "register_proof"
    /\ ret = TRUE
    /\ call.complaint_id \notin updated
    /\ call.timestamp # complaints[call.complaint_id].timestamp

\* C7 (Failure is complete): a complaint_register, register_proof or
\* update_complaint_status call that returns false leaves the whole map as it
\* was.
C7_FailureComplete ==
    [][(call'.op \in Mutators /\ ret' = FALSE) => complaints' = complaints]_vars

\* A status update naming another status and timestamp than the stored ones
\* was refused by a closed complaint.
C7_Witness ==
    /\ call.op = "update_complaint_status"
    /\ ret = FALSE
    /\ call.complaint_id \in DOMAIN complaints
    /\ complaints[call.complaint_id].status = "REJECTED"
    /\ call.status = "FILED"
    /\ call.timestamp # complaints[call.complaint_id].last_status_update

\* C8 (Guard exactness): register_proof and update_complaint_status return
\* true exactly when the id is present and its status is neither RESOLVED nor
\* REJECTED, whatever the other arguments are.
C8_GuardExact ==
    [][call'.op \in {"register_proof", "update_complaint_status"} =>
          (ret' = TRUE <=>
             /\ call'.complaint_id \in DOMAIN complaints
             /\ complaints[call'.complaint_id].status \notin TerminalStatuses)]_vars

\* The second call of a run set a complaint to FILED and was accepted: the
\* complaint was FILED already, by its registration.
C8_Witness ==
    /\ nOps = 2
    /\ call.op = "update_complaint_status"
    /\ call.status = "FILED"
    /\ ret = TRUE

\* C9: an accepted update_complaint_status(id, status, timestamp) sets status
\* and last_status_update to its arguments and keeps user_id, complaint_hash,
\* timestamp and proofs.
C9_UpdateEffect ==
    [][\A id \in DOMAIN complaints :
          (Called("update_complaint_status", id) /\ ret' = TRUE) =>
             /\ complaints'[id].status = call'.status
             /\ complaints'[id].last_status_update = call'.timestamp
             /\ complaints'[id].user_id = complaints[id].user_id
             /\ complaints'[id].complaint_hash = complaints[id].complaint_hash
             /\ complaints'[id].timestamp = complaints[id].timestamp
             /\ complaints'[id].proofs = complaints[id].proofs]_vars

\* A complaint holding a proof was moved to UNDER_INVESTIGATION at a time
\* other than its filing time.
C9_Witness ==
    /\ call.op = "update_complaint_status"
    /\ ret = TRUE
    /\ complaints[call.complaint_id].status = "UNDER_INVESTIGATION"
    /\ complaints[call.complaint_id].last_status_update
          # complaints[call.complaint_id].timestamp
    /\ complaints[call.complaint_id].proofs # << >>

\* C10: an accepted register_proof keeps status, last_status_update, user_id,
\* complaint_hash and timestamp of the record it appends to.
C10_ProofFrame ==
    [][\A id \in DOMAIN complaints :
          (Called("register_proof", id) /\ ret' = TRUE) =>
             /\ complaints'[id].status = complaints[id].status
             /\ complaints'[id].last_status_update = complaints[id].last_status_update
             /\ complaints'[id].user_id = complaints[id].user_id
             /\ complaints'[id].complaint_hash = complaints[id].complaint_hash
             /\ complaints'[id].timestamp = complaints[id].timestamp]_vars

\* A proof was accepted for a FILED complaint whose last status update
\* differs from the proof's timestamp.
C10_Witness ==
    /\ call.op = "register_proof"
    /\ ret = TRUE
    /\ complaints[call.complaint_id].status = "FILED"
    /\ complaints[call.complaint_id].last_status_update # call.timestamp

\* C11 (No deletion, set-once identity): an id that is present stays present
\* in every step with the same user_id, complaint_hash and timestamp, and
\* these are the arguments of the complaint_register call that stored it.
C11_SetOnce ==
    [][/\ \A id \in DOMAIN complaints :
             /\ id \in DOMAIN complaints'
             /\ complaints'[id].user_id = complaints[id].user_id
             /\ complaints'[id].complaint_hash = complaints[id].complaint_hash
             /\ complaints'[id].timestamp = complaints[id].timestamp
       /\ \A id \in (DOMAIN complaints') \ (DOMAIN complaints) :
             /\ Called("complaint_register", id)
             /\ complaints'[id].user_id = call'.user_id
             /\ complaints'[id].complaint_hash = call'.complaint_hash
             /\ complaints'[id].timestamp = call'.timestamp]_vars

\* A complaint filed at T1 by U1 has been closed at another time, after a
\* proof was attached.
C11_Witness ==
    \E id \in DOMAIN complaints :
       /\ complaints[id].user_id = "U1"
       /\ complaints[id].complaint_hash = "hashA"
       /\ complaints[id].timestamp = "T1"
       /\ complaints[id].status = "REJECTED"
       /\ complaints[id].last_status_update = ""
       /\ complaints[id].proofs # << >>

Queries == {"get_complaints", "get_complaint"}

\* C12 (Reads are pure): get_complaints and get_complaint leave the map as it
\* was, and a read that directly follows the same read returns the same
\* value.
C12_ReadsPure ==
    [][/\ call'.op \in Queries => complaints' = complaints
       /\ (call.op = "get_complaints" /\ call'.op = "get_complaints") => ret' = ret
       /\ (/\ call.op = "get_complaint"
           /\ call'.op = "get_complaint"
           /\ call'.complaint_id = call.complaint_id) => ret' = ret]_vars

\* The fourth call of a run is a get_complaints that returns both complaints,
\* after two registrations and one call that changed nothing.
C12_Witness ==
    /\ nOps = 4
    /\ call.op = "get_complaints"
    /\ DOMAIN ret = ComplaintIds
    /\ proofLog = << >>
    /\ updated = {}
    /\ \A id \in ComplaintIds : ret[id].user_id = "U1"

\* C13: get_complaint on an absent id returns empty strings in user_id,
\* complaint_hash, timestamp, status and last_status_update and no proofs,
\* and stores nothing; on a present id it returns the stored record.
C13_GetOne ==
    [][\A id \in ComplaintIds :
          Called("get_complaint", id) =>
             IF id \in DOMAIN complaints
             THEN ret' = complaints[id]
             ELSE /\ ret'.user_id = ""
                  /\ ret'.complaint_hash = ""
                  /\ ret'.timestamp = ""
                  /\ ret'.status = ""
                  /\ ret'.last_status_update = ""
                  /\ ret'.proofs = << >>
                  /\ DOMAIN complaints' = DOMAIN complaints]_vars

\* An absent id was read while another complaint is stored.
C13_Witness ==
    /\ call.op = "get_complaint"
    /\ call.complaint_id \notin DOMAIN complaints
    /\ DOMAIN complaints # {}
    /\ ret.status = ""

\* C14 (Snapshot independence): the value a query returns equals the map (or
\* the stored record) at the moment of the call, and the value its caller
\* keeps is the same after every later complaint_register, register_proof and
\* update_complaint_status.
C14_Snapshot ==
    [][/\ call'.op = "get_complaints" =>
             (ret' = complaints /\ held'.value = ret')
       /\ \A id \in DOMAIN complaints :
             Called("get_complaint", id) =>
                (ret' = complaints[id] /\ held'.value = ret')
       /\ call'.op \in Mutators => held' = held]_vars

\* A get_complaints result that held a complaint is kept by its caller while
\* an accepted write has made the map differ from it.
C14_Witness ==
    /\ held.op = "get_complaints"
    /\ DOMAIN held.value # {}
    /\ call.op \in Mutators
    /\ ret = TRUE
    /\ held.value # complaints

\* C15 (Lifecycle shape): a complaint enters the map as FILED; an
\* update_complaint_status on a complaint that is neither RESOLVED nor
\* REJECTED is accepted and sets whatever status it names; a complaint that
\* is RESOLVED or REJECTED keeps that status in every step.
C15_Lifecycle ==
    [][/\ \A id \in (DOMAIN complaints') \ (DOMAIN complaints) :
             complaints'[id].status = "FILED"
       /\ \A id \in DOMAIN complaints :
             /\ (complaints[id].status \notin TerminalStatuses
                   /\ Called("update_complaint_status", id))
                => (ret' = TRUE /\ complaints'[id].status = call'.status)
             /\ complaints[id].status \in TerminalStatuses
                => complaints'[id].status = complaints[id].status]_vars

\* UNDER_INVESTIGATION -> FILED: the fourth call of a run sets FILED on a
\* complaint that the third call read as UNDER_INVESTIGATION.
C15_Witness ==
    /\ nOps = 4
    /\ call.op = "update_complaint_status"
    /\ ret = TRUE
    /\ call.status = "FILED"
    /\ held.op = "get_complaint"
    /\ held.complaint_id = call.complaint_id
    /\ held.value.status = "UNDER_INVESTIGATION"
    /\ complaints[call.complaint_id].status = "FILED"

\* Every field of the record is empty.
AllEmpty(complaint) ==
    /\ complaint.user_id = ""
    /\ complaint.complaint_hash = ""
    /\ complaint.timestamp = ""
    /\ complaint.status = ""
    /\ complaint.last_status_update = ""
    /\ complaint.proofs = << >>

\* C16: get_complaint does not tell a stored record from an absent id: when
\* a stored record has only empty fields, get_complaint returns for it what
\* it returns for any absent id.  (The witness reaches such a record.)
C16_SentinelAmbiguous ==
    \A present \in DOMAIN complaints :
       \A absent \in ComplaintIds \ DOMAIN complaints :
          AllEmpty(complaints[present]) =>
             get_complaint(complaints, present) = get_complaint(complaints, absent)

\* A complaint registered with empty arguments and updated to the empty
\* status at the empty time was read, and the value returned is the one
\* get_complaint gives for an absent id.
C16_Witness ==
    /\ call.op = "get_complaint"
    /\ call.complaint_id \in DOMAIN complaints
    /\ call.complaint_id \in updated
    /\ \E absent \in ComplaintIds \ DOMAIN complaints :
          ret = get_complaint(complaints, absent)

\* C17 (First writer wins): of the complaint_register calls for one id,
\* whatever is interleaved with them, the first executed returns true and
\* every later one false, and the stored user_id, complaint_hash and
\* timestamp are those of the first.
C17_FirstWriterWins ==
    /\ [][\A id \in ComplaintIds :
             Called("complaint_register", id) =>
                (ret' = TRUE <=> id \notin DOMAIN firstRegister)]_vars
    /\ [](\A id \in DOMAIN firstRegister :
             /\ id \in DOMAIN complaints
             /\ complaints[id].user_id = firstRegister[id].user_id
             /\ complaints[id].complaint_hash = firstRegister[id].complaint_hash
             /\ complaints[id].timestamp = firstRegister[id].timestamp)

\* A second registration of an id, differing in every argument from the
\* first, was refused after a status update and a proof in between.
C17_Witness ==
    /\ call.op = "complaint_register"
    /\ ret = FALSE
    /\ firstRegister[call.complaint_id].user_id # call.user_id
    /\ firstRegister[call.complaint_id].complaint_hash # call.complaint_hash
    /\ firstRegister[call.complaint_id].timestamp # call.timestamp
    /\ call.complaint_id \in updated
    /\ proofLog # << >>

WriteCalls(id) ==
    [op : {"complaint_register"}, complaint_id : {id},
     complaint_hash : ComplaintHashes, user_id : UserIds, timestamp : Timestamps]
    \cup
    [op : {"register_proof"}, complaint_id : {id},
     proof_hash : ProofHashes, proof_type : ProofTypes, timestamp : Timestamps]
    \cup
    [op : {"update_complaint_status"}, complaint_id : {id},
     status : StatusArgs, timestamp : Timestamps]

\* The handler that call `c` names, applied to `map`.
Apply(c, map) ==
    CASE c.op = "complaint_register" ->
            complaint_register(map, c.complaint_id, c.complaint_hash,
                               c.user_id, c.timestamp)
      [] c.op = "register_proof" ->
            register_proof(map, c.complaint_id, c.proof_hash,
                           c.proof_type, c.timestamp)
      [] c.op = "update_complaint_status" ->
            update_complaint_status(map, c.complaint_id, c.status, c.timestamp)

\* Calls a then b, and b then a, from `map`: same return values, same final
\* map, same get_complaints result.
Commute(a, b, map) ==
    LET ra  == Apply(a, map)
        rab == Apply(b, ra.complaints)
        rb  == Apply(b, map)
        rba == Apply(a, rb.complaints)
    IN  /\ ra.ret = rba.ret
        /\ rb.ret = rab.ret
        /\ rab.complaints = rba.complaints
        /\ get_complaints(rab.complaints) = get_complaints(rba.complaints)

\* C19 (Commutation): from the map that a get_complaints call has just
\* returned, any two mutator calls on distinct ids give the same return
\* values and the same final map in either order.
C19_Commute ==
    call.op = "get_complaints" =>
       \A x \in ComplaintIds : \A y \in ComplaintIds \ {x} :
          \A a \in WriteCalls(x) : \A b \in WriteCalls(y) :
             Commute(a, b, ret)

\* get_complaints returned a map with one open complaint and one closed
\* complaint: a status update is accepted for the one and refused for the
\* other, in either order.
C19_Witness ==
    /\ call.op = "get_complaints"
    /\ \E x \in DOMAIN ret : \E y \in (DOMAIN ret) \ {x} :
          /\ ret[x].status = "FILED"
          /\ ret[y].status = "RESOLVED"
          /\ \E a \in WriteCalls(x) : \E b \in WriteCalls(y) :
                /\ a.op = "update_complaint_status"
                /\ b.op = "update_complaint_status"
                /\ Apply(a, ret).ret = TRUE
                /\ Apply(b, Apply(a, ret).complaints).ret = FALSE

====
